---- MODULE Spec2Model ----
(***************************************************************************)
(* Model of the GraphQL resolvers of src/index.js (the `root` object,      *)
(* lines 91-175) running against the three Mongoose collections User,      *)
(* Post and Comment (lines 22-44).                                         *)
(*                                                                         *)
(* Every resolver is an async function.  Node runs the code between two    *)
(* `await`s without interruption, so each action below is one database     *)
(* operation together with the synchronous code that follows it up to the  *)
(* next `await` (or to the end of the resolver).  Several resolver calls   *)
(* may be in flight at once; their database operations interleave freely.  *)
(*                                                                         *)
(* Database semantics assumed of Mongoose / MongoDB:                       *)
(*   - findById returns a private copy of the stored document, or null;    *)
(*   - `new Model(...)` draws a fresh ObjectId, and save() of a new        *)
(*     document inserts it;                                                *)
(*   - array.push(x) on a loaded document is recorded as an atomic $push,  *)
(*     and save() sends only that delta: the element is appended to the    *)
(*     array as it is stored at the time of the write, whatever the        *)
(*     caller's copy looked like;                                          *)
(*   - array.includes(id) compares ids by value.                           *)
(*   - populate(path) replaces each id of the path by the document it      *)
(*     names; ids that name no document are dropped from an array, and a   *)
(*     single reference becomes null.  Documents are never deleted, so     *)
(*     findById(...).populate(...) is taken as one read.                   *)
(*   - assigning a property the schema does not declare (user.posts) sets  *)
(*     it on the loaded copy only; GraphQL's default field resolver reads  *)
(*     the property of that name, and yields null when there is none.      *)
(* Scalar payload (name, email, title, content, imageUrl) takes no part in *)
(* any branch of the resolvers and is not represented.  Ids are well       *)
(* formed ObjectIds; an id may name no document.                           *)
(*                                                                         *)
(* The model is bounded by the number of documents per collection, the     *)
(* number of calls in flight at once and the number of calls issued in a   *)
(* behaviour.  Spec has the mutations only; SpecQuery adds the queries     *)
(* user, users and post; SpecCrash adds a process that stops in the middle *)
(* of a mutation (its pending database operation is never applied).        *)
(***************************************************************************)
EXTENDS Integers, Sequences, FiniteSets, Bags, TLC

\* ---------------------------------------------------------------- bounds
MaxUsers    == 2
MaxPosts    == 2
MaxComments == 2
NumCallers  == 2
MaxCalls    == 4
MaxCrashes  == 1

\* ------------------------------------------------------------------- ids
\* A well-formed id that names no document of any collection.
NoSuchId == 0

UserId(i)    == 100 + i
PostId(i)    == 200 + i
CommentId(i) == 300 + i

VARIABLES
  users,      \* User collection:    id -> [followers, following]
  posts,      \* Post collection:    id -> [author, likes, comments]
  comments,   \* Comment collection: id -> [author, post]
  calls,      \* bag of the resolver calls in flight (requests are anonymous)
  returned,   \* the call that completed last, with its outcome
  issued,     \* number of resolver calls issued so far
  crashed     \* the calls that stopped before their end, as they were then

vars == <<users, posts, comments, calls, returned, issued, crashed>>

\* ------------------------------------------------------------ documents
Null == [null |-> TRUE]

NewUser == [followers |-> <<>>, following |-> <<>>]
NewPost(authorId) == [author |-> authorId, likes |-> <<>>, comments |-> <<>>]
NewComment(authorId, postId) == [author |-> authorId, post |-> postId]

\* The whole store as one value.
Store == [users |-> users, posts |-> posts, comments |-> comments]

\* Model.findById(id): the stored document or null.
findById(coll, id) == IF id \in DOMAIN coll THEN coll[id] ELSE Null

\* array.includes(id)
includes(arr, id) == \E i \in 1..Len(arr) : arr[i] = id

\* new Model(...): ObjectIds are fresh; documents are numbered in insertion order.
freshUserId(S)    == UserId(Cardinality(DOMAIN S.users) + 1)
freshPostId(S)    == PostId(Cardinality(DOMAIN S.posts) + 1)
freshCommentId(S) == CommentId(Cardinality(DOMAIN S.comments) + 1)

\* ----------------------------------------------------------------- calls
\* No call has completed yet.
Idle == [op |-> "none", pc |-> "idle"]

\* A call that has just been issued; args is the tuple of its id arguments.
Call(op, args) == [op |-> op, args |-> args, pc |-> "start"]

\* A call that has returned (res = "ok") or thrown (res = the error).
Done(c, res) == [op |-> c.op, args |-> c.args, pc |-> "done", res |-> res]

\* Variant of save: the caller's copy of the array replaces the stored one.
save_overwrite(stored, local, id) == local

\* doc.save() after array.push(id): the $push is applied to the stored array.
save(stored, local, id) == Append(stored, id)

\* ------------------------------------------------------------- resolvers
\* Each operator is one step of a resolver: from the store S and the call c
\* (its arguments, position and loaded documents) to the store and call after.

\* addUser, lines 124-128.
addUser(S, c) ==
  [S |-> [S EXCEPT !.users = @ @@ (freshUserId(S) :> NewUser)],
   c |-> Done(c, "ok")]

\* addPost, lines 130-134: args = <<authorId>>.
addPost(S, c) ==
  [S |-> [S EXCEPT !.posts = @ @@ (freshPostId(S) :> NewPost(c.args[1]))],
   c |-> Done(c, "ok")]

\* likePost, lines 138-140 (and 143 when nothing is pushed): args = <<postId, userId>>.
likePost_findById(S, c) ==
  LET post == findById(S.posts, c.args[1]) IN
  IF post = Null
    THEN [S |-> S, c |-> Done(c, "TypeError")]
    ELSE IF ~includes(post.likes, c.args[2])
      THEN [S |-> S,
            c |-> [op |-> c.op, args |-> c.args, pc |-> "likePost_save",
                   post |-> [post EXCEPT !.likes = Append(@, c.args[2])]]]
      ELSE [S |-> S, c |-> Done(c, "ok")]

\* likePost, lines 141-143.
likePost_save(S, c) ==
  [S |-> [S EXCEPT !.posts[c.args[1]].likes = save(@, c.post.likes, c.args[2])],
   c |-> Done(c, "ok")]

\* Variant of addComment_saveComment: author and post are taken from each other's argument.
addComment_saveComment_swapped(S, c) ==
  LET id == freshCommentId(S) IN
  [S |-> [S EXCEPT !.comments = @ @@ (id :> NewComment(c.args[1], c.args[2]))],
   c |-> [op |-> c.op, args |-> c.args, pc |-> "addComment_findById", comment |-> id]]

\* addComment, lines 148-149: args = <<postId, authorId>>.
addComment_saveComment(S, c) ==
  LET id == freshCommentId(S) IN
  [S |-> [S EXCEPT !.comments = @ @@ (id :> NewComment(c.args[2], c.args[1]))],
   c |-> [op |-> c.op, args |-> c.args, pc |-> "addComment_findById", comment |-> id]]

\* addComment, lines 151-152.
addComment_findById(S, c) ==
  LET post == findById(S.posts, c.args[1]) IN
  IF post = Null
    THEN [S |-> S, c |-> Done(c, "TypeError")]
    ELSE [S |-> S,
          c |-> [op |-> c.op, args |-> c.args, pc |-> "addComment_savePost",
                 comment |-> c.comment,
                 post |-> [post EXCEPT !.comments = Append(@, c.comment)]]]

\* addComment, lines 153-155.
addComment_savePost(S, c) ==
  [S |-> [S EXCEPT !.posts[c.args[1]].comments = save(@, c.post.comments, c.comment)],
   c |-> Done(c, "ok")]

\* followUser, line 160: args = <<followerId, followingId>>.
followUser_findFollower(S, c) ==
  [S |-> S,
   c |-> [op |-> c.op, args |-> c.args, pc |-> "followUser_findFollowing",
          follower |-> findById(S.users, c.args[1])]]

\* followUser, line 168 (and 173 when nothing is pushed), reached from 163 or 165.
followUser_checkFollowers(S, c) ==
  IF c.following = Null
    THEN [S |-> S, c |-> Done(c, "TypeError")]
    ELSE IF ~includes(c.following.followers, c.args[1])
      THEN [S |-> S,
            c |-> [op |-> c.op, args |-> c.args, pc |-> "followUser_saveFollowing",
                   following |-> [c.following EXCEPT !.followers = Append(@, c.args[1])]]]
      ELSE [S |-> S, c |-> Done(c, "ok")]

\* Variant of followUser_findFollowing: the call returns at once when the
\* follower already follows the user.
followUser_findFollowing_earlyReturn(S, c) ==
  LET following == findById(S.users, c.args[2]) IN
  IF c.follower = Null
    THEN [S |-> S, c |-> Done(c, "TypeError")]
    ELSE IF ~includes(c.follower.following, c.args[2])
      THEN [S |-> S,
            c |-> [op |-> c.op, args |-> c.args, pc |-> "followUser_saveFollower",
                   follower |-> [c.follower EXCEPT !.following = Append(@, c.args[2])],
                   following |-> following]]
      ELSE [S |-> S, c |-> Done(c, "ok")]

\* followUser, lines 161-164.
followUser_findFollowing(S, c) ==
  LET following == findById(S.users, c.args[2]) IN
  IF c.follower = Null
    THEN [S |-> S, c |-> Done(c, "TypeError")]
    ELSE IF ~includes(c.follower.following, c.args[2])
      THEN [S |-> S,
            c |-> [op |-> c.op, args |-> c.args, pc |-> "followUser_saveFollower",
                   follower |-> [c.follower EXCEPT !.following = Append(@, c.args[2])],
                   following |-> following]]
      ELSE followUser_checkFollowers(S,
             [op |-> c.op, args |-> c.args, following |-> following])

\* Variant of followUser_saveFollower: the second block is an `else if` of the
\* first, so the call returns once the follower is saved.
followUser_saveFollower_elseIf(S, c) ==
  [S |-> [S EXCEPT !.users[c.args[1]].following = save(@, c.follower.following, c.args[2])],
   c |-> Done(c, "ok")]

\* followUser, lines 165-168.
followUser_saveFollower(S, c) ==
  followUser_checkFollowers(
    [S EXCEPT !.users[c.args[1]].following = save(@, c.follower.following, c.args[2])],
    [op |-> c.op, args |-> c.args, following |-> c.following])

\* followUser, lines 170-173.
followUser_saveFollowing(S, c) ==
  [S |-> [S EXCEPT !.users[c.args[2]].followers = save(@, c.following.followers, c.args[1])],
   c |-> Done(c, "ok")]

\* -------------------------------------------------------------- queries
\* A query that has returned val (res = "ok") or thrown (res = the error).
DoneVal(c, res, val) ==
  [op |-> c.op, args |-> c.args, pc |-> "done", res |-> res, val |-> val]

\* The ids of arr that name a document of coll, in order.
resolved(coll, arr) == SelectSeq(arr, LAMBDA id : id \in DOMAIN coll)

\* The ids of coll's documents in natural (insertion) order.
RECURSIVE idsOf(_)
idsOf(ids) ==
  IF ids = {} THEN <<>>
  ELSE LET m == CHOOSE x \in ids : \A y \in ids : x <= y
       IN  <<m>> \o idsOf(ids \ {m})

\* doc.populate('followers following') of a user document.
populateUser(S, id) ==
  [id |-> id,
   followers |-> resolved(S.users, S.users[id].followers),
   following |-> resolved(S.users, S.users[id].following)]

\* Variant of findPostsByAuthor: the filter is left out (Post.find()).
findPostsByAuthor_all(S, id) == idsOf(DOMAIN S.posts)

\* Post.find({ author: id }): the ids of the posts written by id.
findPostsByAuthor(S, id) ==
  SelectSeq(idsOf(DOMAIN S.posts), LAMBDA p : S.posts[p].author = id)

\* user, line 94: args = <<id>>.
user_findById(S, c) ==
  [S |-> S,
   c |-> [op |-> c.op, args |-> c.args, pc |-> "user_findPosts",
          user |-> IF c.args[1] \in DOMAIN S.users
                     THEN populateUser(S, c.args[1]) ELSE Null]]

\* user, lines 95-96: the posts are read, then assigned to user.posts.
user_findPosts(S, c) ==
  LET found == findPostsByAuthor(S, c.args[1]) IN
  IF c.user = Null
    THEN [S |-> S, c |-> Done(c, "TypeError")]
    ELSE [S |-> S, c |-> DoneVal(c, "ok", c.user @@ [posts |-> found])]

\* users, lines 99-102.
usersQuery(S, c) ==
  LET ids == idsOf(DOMAIN S.users) IN
  [S |-> S,
   c |-> DoneVal(c, "ok", [i \in 1..Len(ids) |-> populateUser(S, ids[i])])]

\* post, lines 104-112: args = <<id>>.
postQuery(S, c) ==
  LET id == c.args[1] IN
  IF id \notin DOMAIN S.posts
    THEN [S |-> S, c |-> DoneVal(c, "ok", Null)]
    ELSE
      LET doc == S.posts[id]
          cs  == resolved(S.comments, doc.comments)
      IN  [S |-> S,
           c |-> DoneVal(c, "ok",
                   [id |-> id,
                    author |-> IF doc.author \in DOMAIN S.users THEN doc.author ELSE Null,
                    likes |-> resolved(S.users, doc.likes),
                    comments |-> [i \in 1..Len(cs) |->
                                    [id |-> cs[i],
                                     author |-> IF S.comments[cs[i]].author \in DOMAIN S.users
                                                  THEN S.comments[cs[i]].author ELSE Null]]])]

\* GraphQL's default resolver for a field of a returned object.
field(val, name) == IF name \in DOMAIN val THEN val[name] ELSE Null

\* One step of whatever call c is, by its position.
step(S, c) ==
  CASE c.pc = "start" /\ c.op = "addUser"    -> addUser(S, c)
    [] c.pc = "start" /\ c.op = "addPost"    -> addPost(S, c)
    [] c.pc = "start" /\ c.op = "likePost"   -> likePost_findById(S, c)
    [] c.pc = "start" /\ c.op = "addComment" -> addComment_saveComment(S, c)
    [] c.pc = "start" /\ c.op = "followUser" -> followUser_findFollower(S, c)
    [] c.pc = "start" /\ c.op = "user"       -> user_findById(S, c)
    [] c.pc = "start" /\ c.op = "users"      -> usersQuery(S, c)
    [] c.pc = "start" /\ c.op = "post"       -> postQuery(S, c)
    [] c.pc = "user_findPosts"               -> user_findPosts(S, c)
    [] c.pc = "likePost_save"                -> likePost_save(S, c)
    [] c.pc = "addComment_findById"          -> addComment_findById(S, c)
    [] c.pc = "addComment_savePost"          -> addComment_savePost(S, c)
    [] c.pc = "followUser_findFollowing"     -> followUser_findFollowing(S, c)
    [] c.pc = "followUser_saveFollower"      -> followUser_saveFollower(S, c)
    [] c.pc = "followUser_saveFollowing"     -> followUser_saveFollowing(S, c)
    [] OTHER                                 -> [S |-> S, c |-> c]

\* A resolver call run from its first step to its return with nothing interleaved
\* (no resolver has more than four awaits).
run(S, c) ==
  LET r1 == step(S, c)
      r2 == step(r1.S, r1.c)
      r3 == step(r2.S, r2.c)
  IN  step(r3.S, r3.c)

\* ----------------------------------------------------------------- state
Init ==
  /\ users = <<>>
  /\ posts = <<>>
  /\ comments = <<>>
  /\ calls = EmptyBag
  /\ returned = Idle
  /\ issued = 0
  /\ crashed = {}

\* Ids a caller may pass where a user, or a post, is expected.
UserArgs == DOMAIN users \cup {NoSuchId}
PostArgs == DOMAIN posts \cup {NoSuchId}

InFlight == BagToSet(calls)

\* The store becomes r.S; the call r.c stays in flight, or has completed.
Becomes(others, r) ==
  /\ users' = r.S.users
  /\ posts' = r.S.posts
  /\ comments' = r.S.comments
  /\ IF r.c.pc = "done"
       THEN calls' = others /\ returned' = r.c
       ELSE calls' = others (+) SetToBag({r.c}) /\ returned' = returned

\* A call is issued: the resolver runs up to and including its first await.
Issue(op, args) ==
  /\ BagCardinality(calls) < NumCallers
  /\ issued < MaxCalls
  /\ issued' = issued + 1
  /\ Becomes(calls, step(Store, Call(op, args)))
  /\ UNCHANGED crashed

\* The pending database operation of the call c in flight completes, and the
\* resolver runs on to its next await or to its end.
Resume(c) ==
  /\ Becomes(calls (-) SetToBag({c}), step(Store, c))
  /\ UNCHANGED <<issued, crashed>>

AddUser ==
  /\ Cardinality(DOMAIN users) < MaxUsers
  /\ Issue("addUser", <<>>)

AddPost ==
  /\ Cardinality(DOMAIN posts) < MaxPosts
  /\ \E authorId \in UserArgs : Issue("addPost", <<authorId>>)

LikePost ==
  \E postId \in PostArgs, userId \in UserArgs : Issue("likePost", <<postId, userId>>)

LikePostSave ==
  \E c \in InFlight : c.pc = "likePost_save" /\ Resume(c)

AddComment ==
  /\ Cardinality(DOMAIN comments) < MaxComments
  /\ \E postId \in PostArgs, authorId \in UserArgs :
       Issue("addComment", <<postId, authorId>>)

AddCommentFindById ==
  \E c \in InFlight : c.pc = "addComment_findById" /\ Resume(c)

AddCommentSavePost ==
  \E c \in InFlight : c.pc = "addComment_savePost" /\ Resume(c)

FollowUser ==
  \E followerId \in UserArgs, followingId \in UserArgs :
    Issue("followUser", <<followerId, followingId>>)

FollowUserFindFollowing ==
  \E c \in InFlight : c.pc = "followUser_findFollowing" /\ Resume(c)

FollowUserSaveFollower ==
  \E c \in InFlight : c.pc = "followUser_saveFollower" /\ Resume(c)

FollowUserSaveFollowing ==
  \E c \in InFlight : c.pc = "followUser_saveFollowing" /\ Resume(c)

Next ==
  \/ AddUser
  \/ AddPost
  \/ LikePost
  \/ LikePostSave
  \/ AddComment
  \/ AddCommentFindById
  \/ AddCommentSavePost
  \/ FollowUser
  \/ FollowUserFindFollowing
  \/ FollowUserSaveFollower
  \/ FollowUserSaveFollowing

Spec == Init /\ [][Next]_vars

\* ---------------------------------------------------- Spec with queries
QueryUser ==
  \E id \in UserArgs : Issue("user", <<id>>)

QueryUserFindPosts ==
  \E c \in InFlight : c.pc = "user_findPosts" /\ Resume(c)

\* users takes no argument.
QueryUsers ==
  /\ issued < MaxCalls
  /\ Issue("users", <<>>)

QueryPost ==
  \E id \in PostArgs : Issue("post", <<id>>)

NextQuery ==
  \/ Next
  \/ QueryUser
  \/ QueryUserFindPosts
  \/ QueryUsers
  \/ QueryPost

SpecQuery == Init /\ [][NextQuery]_vars

\* ---------------------------------------------------- Spec with crashes
\* The process stops while the mutation c awaits a database operation, which
\* is never applied.
Crash ==
  /\ Cardinality(crashed) < MaxCrashes
  /\ \E c \in InFlight :
       /\ calls' = calls (-) SetToBag({c})
       /\ crashed' = crashed \cup {c}
  /\ UNCHANGED <<users, posts, comments, returned, issued>>

NextCrash ==
  \/ Next
  \/ Crash

SpecCrash == Init /\ [][NextCrash]_vars

\* ---------------------------------------------------------------- helpers
\* Number of occurrences of id in arr.
count(arr, id) == Cardinality({i \in 1..Len(arr) : arr[i] = id})

toSet(arr) == {arr[i] : i \in 1..Len(arr)}

NoDuplicates(arr) == \A i, j \in 1..Len(arr) : arr[i] = arr[j] => i = j

NoneInFlight(op) == \A c \in InFlight : c.op # op

\* The store after a whole call run alone from store S.
after(S, op, args) == run(S, Call(op, args)).S

\* ------------------------------------------------------------------- C1
\* C1: whenever no followUser call is in flight, for all users A and B,
\* B is in A.following iff A is in B.followers.
C1_FollowSymmetry ==
  NoneInFlight("followUser") =>
    \A a \in DOMAIN users, b \in DOMAIN users :
      includes(users[a].following, b) <=> includes(users[b].followers, a)

\* Two followUser(A,B) calls ran concurrently (both pushed) and have completed.
C1_Witness ==
  /\ NoneInFlight("followUser")
  /\ returned.op = "followUser" /\ returned.res = "ok"
  /\ \E a \in DOMAIN users, b \in DOMAIN users :
       /\ a # b
       /\ returned.args = <<a, b>>
       /\ count(users[a].following, b) = 2
       /\ count(users[b].followers, a) = 2

\* ------------------------------------------------------------------- C2
\* C2: no id occurs twice in any post's likes or in any user's followers or
\* following.
C2_NoDuplicateIds ==
  /\ \A p \in DOMAIN posts : NoDuplicates(posts[p].likes)
  /\ \A u \in DOMAIN users :
       NoDuplicates(users[u].followers) /\ NoDuplicates(users[u].following)

\* ------------------------------------------------------------------- C3
\* C3: from every store, for every existing post P and user U, likePost(P,U)
\* run twice in sequence leaves the store as running it once does, with U
\* exactly once in P.likes.
C3_LikeIdempotent ==
  \A p \in DOMAIN posts, u \in DOMAIN users :
    LET once  == after(Store, "likePost", <<p, u>>)
        twice == after(once, "likePost", <<p, u>>)
    IN  twice = once /\ count(once.posts[p].likes, u) = 1

\* ------------------------------------------------------------------- C4
\* The followers and following of every user, as sets.
FollowSets(S) ==
  [u \in DOMAIN S.users |->
     [followers |-> toSet(S.users[u].followers),
      following |-> toSet(S.users[u].following)]]

\* C4: from every store, for all existing users A and B, followUser(A,B) run
\* twice in sequence yields the same followers and following sets, for every
\* user, as running it once.
C4_FollowIdempotent ==
  \A a \in DOMAIN users, b \in DOMAIN users :
    LET once  == after(Store, "followUser", <<a, b>>)
        twice == after(once, "followUser", <<a, b>>)
    IN  FollowSets(twice) = FollowSets(once)

\* A followUser(A,B) on two existing users has completed, linked the pair, and
\* running it again from here changes nothing.
C4_Witness ==
  /\ calls = EmptyBag
  /\ returned.op = "followUser" /\ returned.res = "ok"
  /\ returned.args[1] \in DOMAIN users /\ returned.args[2] \in DOMAIN users
  /\ includes(users[returned.args[1]].following, returned.args[2])
  /\ includes(users[returned.args[2]].followers, returned.args[1])
  /\ after(Store, "followUser", returned.args) = Store

\* ------------------------------------------------------------------- C5
\* C5: every post's author, every comment's author and post, and every id in
\* a likes, followers, following or comments array names a stored document
\* of the right collection.
C5_ReferentialIntegrity ==
  /\ \A p \in DOMAIN posts :
       /\ posts[p].author \in DOMAIN users
       /\ toSet(posts[p].likes) \subseteq DOMAIN users
       /\ toSet(posts[p].comments) \subseteq DOMAIN comments
  /\ \A c \in DOMAIN comments :
       /\ comments[c].author \in DOMAIN users
       /\ comments[c].post \in DOMAIN posts
  /\ \A u \in DOMAIN users :
       /\ toSet(users[u].followers) \subseteq DOMAIN users
       /\ toSet(users[u].following) \subseteq DOMAIN users

\* ------------------------------------------------------------------- C6
\* Posts whose comments array holds comment c.
PostsHolding(c) == {p \in DOMAIN posts : includes(posts[p].comments, c)}

\* C6: whenever no addComment call is in flight, every comment C is in
\* P.comments iff C.post = P, and C occurs in exactly one post's comments,
\* exactly once.
C6_CommentOwnership ==
  NoneInFlight("addComment") =>
    \A c \in DOMAIN comments :
      /\ \A p \in DOMAIN posts : includes(posts[p].comments, c) <=> comments[c].post = p
      /\ Cardinality(PostsHolding(c)) = 1
      /\ \A p \in PostsHolding(c) : count(posts[p].comments, c) = 1

\* ------------------------------------------------------------------- C7
\* C7: from every store, for every existing post P and user A, addComment(P, A)
\* run alone returns, creates exactly one comment, with author A and post P,
\* and P.comments becomes its old value with that comment's id appended.
C7_CommentAppend ==
  \A p \in DOMAIN posts, a \in DOMAIN users :
    LET r     == run(Store, Call("addComment", <<p, a>>))
        added == DOMAIN r.S.comments \ DOMAIN comments
    IN  /\ r.c.pc = "done" /\ r.c.res = "ok"
        /\ Cardinality(added) = 1
        /\ \A id \in added :
             /\ r.S.comments[id] = [author |-> a, post |-> p]
             /\ r.S.posts[p].comments = Append(posts[p].comments, id)
             /\ Len(r.S.posts[p].comments) = Len(posts[p].comments) + 1

\* An addComment(P, A) on an existing post and user has completed with nothing
\* else in flight; the last entry of P.comments is a comment by A on P.
C7_Witness ==
  /\ calls = EmptyBag
  /\ returned.op = "addComment" /\ returned.res = "ok"
  /\ returned.args[1] \in DOMAIN posts /\ returned.args[2] \in DOMAIN users
  /\ LET cs == posts[returned.args[1]].comments IN
       /\ Len(cs) >= 1
       /\ cs[Len(cs)] \in DOMAIN comments
       /\ comments[cs[Len(cs)]] = [author |-> returned.args[2], post |-> returned.args[1]]

\* ------------------------------------------------------------------- C8
\* C8: an addPost whose authorId names no user fails with NotFound and creates
\* no post.
C8_AddPostNotFound ==
  [][(AddPost /\ returned'.args[1] \notin DOMAIN users)
       => (returned'.res = "NotFound" /\ posts' = posts)]_vars

\* ------------------------------------------------------------------- C9
\* C9: a likePost whose postId names no post or whose userId names no user
\* fails with NotFound, and no id that names no user is ever in a post's likes.
C9_LikePostNotFound ==
  /\ (/\ returned.op = "likePost"
      /\ (returned.args[1] \notin DOMAIN posts \/ returned.args[2] \notin DOMAIN users))
       => returned.res = "NotFound"
  /\ \A p \in DOMAIN posts : toSet(posts[p].likes) \subseteq DOMAIN users

\* ------------------------------------------------------------------ C10
\* The ids of an addComment call do not both name stored documents.
Unresolved(args) == args[1] \notin DOMAIN posts \/ args[2] \notin DOMAIN users

\* C10: an addComment whose postId names no post or whose authorId names no
\* user writes nothing: no step of it changes any of the three collections.
C10_AddCommentValidates ==
  [][/\ \A postId \in PostArgs, authorId \in UserArgs :
          (Unresolved(<<postId, authorId>>) /\ Issue("addComment", <<postId, authorId>>))
            => (users' = users /\ posts' = posts /\ comments' = comments)
     /\ \A c \in InFlight :
          (c.op = "addComment" /\ Unresolved(c.args) /\ Resume(c))
            => (users' = users /\ posts' = posts /\ comments' = comments)]_vars

\* ------------------------------------------------------------------ C11
\* What the query op(args) returns when run alone on store S.
answer(S, op, args) == run(S, Call(op, args)).c

\* C11: in every store, for every user U, user(U) returns exactly the posts
\* whose author is U, and no user document holds a posts field.
C11_DerivedPosts ==
  \A u \in DOMAIN users :
    LET a == answer(Store, "user", <<u>>) IN
    /\ a.res = "ok"
    /\ toSet(field(a.val, "posts")) = {p \in DOMAIN posts : posts[p].author = u}
    /\ NoDuplicates(field(a.val, "posts"))
    /\ "posts" \notin DOMAIN users[u]

\* A user(U) query has returned a post of U's while the store also holds a
\* post written by someone else, created before it.
C11_Witness ==
  /\ returned.op = "user" /\ returned.res = "ok"
  /\ \E p \in DOMAIN posts, q \in DOMAIN posts :
       /\ q < p
       /\ posts[q].author # returned.args[1]
       /\ posts[p].author = returned.args[1]
       /\ returned.val.posts = <<p>>

\* ------------------------------------------------------------------ C12
\* C12: a user(id) or post(id) query whose id names no document fails with
\* NotFound.
C12_RootNotFound ==
  /\ (returned.op = "user" /\ returned.args[1] \notin DOMAIN users)
       => returned.res = "NotFound"
  /\ (returned.op = "post" /\ returned.args[1] \notin DOMAIN posts)
       => returned.res = "NotFound"

\* ------------------------------------------------------------------ C13
\* The ids that other likePost calls have saved into the post of the pending
\* likePost c since c loaded its copy.
Landed(c) ==
  {id \in toSet(posts[c.args[1]].likes) : ~includes(c.post.likes, id)}

\* The save of the pending likePost c, whose copy of the post is stale, completes.
StaleSave(c) ==
  /\ c.pc = "likePost_save"
  /\ Landed(c) # {}
  /\ Resume(c)

\* C13 as stated: when two likePost calls with different users race on one
\* post (both load it before either saves), the later save loses an update:
\* the final likes lack one of the two users.
C13_LostUpdate ==
  [][\A c \in InFlight :
       StaleSave(c) =>
         \E id \in Landed(c) \cup {c.args[2]} : ~includes(posts'[c.args[1]].likes, id)]_vars

\* C13 as amended: in that race no update is lost; after the later save the
\* likes hold the users of both calls.
C13_NoLostUpdate ==
  [][\A c \in InFlight :
       StaleSave(c) =>
         \A id \in Landed(c) \cup {c.args[2]} : includes(posts'[c.args[1]].likes, id)]_vars

\* Two likePost calls with different users loaded the same post before either
\* saved; the first has completed and the second's save is pending.
C13_Witness ==
  \E c \in InFlight :
    /\ c.pc = "likePost_save"
    /\ returned.op = "likePost" /\ returned.res = "ok"
    /\ returned.args[1] = c.args[1]
    /\ returned.args[2] # c.args[2]
    /\ returned.args[2] \in Landed(c)

\* ------------------------------------------------------------------ C14
\* C14: every step leaves each post's likes, and each user's followers and
\* following, a superset of what it was.
C14_LinksNeverRemoved ==
  [][/\ \A p \in DOMAIN posts :
          /\ p \in DOMAIN posts'
          /\ toSet(posts[p].likes) \subseteq toSet(posts'[p].likes)
     /\ \A u \in DOMAIN users :
          /\ u \in DOMAIN users'
          /\ toSet(users[u].followers) \subseteq toSet(users'[u].followers)
          /\ toSet(users[u].following) \subseteq toSet(users'[u].following)]_vars

\* A post is liked by two different ids: the first link outlived the second
\* call's write.
C14_Witness ==
  \E p \in DOMAIN posts :
    /\ Cardinality(toSet(posts[p].likes)) = 2
    /\ calls = EmptyBag

\* ------------------------------------------------------------------ C15
\* followUser(a, b) run alone from store S up to the save of b.followers.
followUpToSaveFollowing(S, a, b) ==
  LET r1 == step(S, Call("followUser", <<a, b>>))
      r2 == step(r1.S, r1.c)
  IN  [wroteFollowing |-> r2.c.pc = "followUser_saveFollower",
       r |-> step(r2.S, r2.c)]

\* C15: from every store, for existing users A # B, if followUser(A,B) has
\* written A.following and stops before writing B.followers, then B is in
\* A.following and A is not in B.followers; and followUser(A,B) run again,
\* alone, leaves the store that one uninterrupted followUser(A,B) leaves:
\* B in A.following and A in B.followers, each exactly once.
C15_FollowCrashRetry ==
  \A a \in DOMAIN users, b \in DOMAIN users :
    LET u == followUpToSaveFollowing(Store, a, b) IN
    (a # b /\ u.wroteFollowing /\ u.r.c.pc = "followUser_saveFollowing") =>
      LET stopped == u.r.S
          retried == after(stopped, "followUser", <<a, b>>)
          single  == after(Store, "followUser", <<a, b>>)
      IN  /\ includes(stopped.users[a].following, b)
          /\ ~includes(stopped.users[b].followers, a)
          /\ retried = single
          /\ count(retried.users[a].following, b) = 1
          /\ count(retried.users[b].followers, a) = 1

\* A followUser(A,B) stopped with its save of B.followers pending, and a later
\* followUser(A,B) has completed: the pair is linked both ways, once each.
C15_Witness ==
  /\ calls = EmptyBag
  /\ returned.op = "followUser" /\ returned.res = "ok"
  /\ \E c \in crashed :
       /\ c.op = "followUser" /\ c.pc = "followUser_saveFollowing"
       /\ c.args = returned.args
       /\ c.args[1] # c.args[2]
       /\ c.args[1] \in DOMAIN users /\ c.args[2] \in DOMAIN users
       /\ count(users[c.args[1]].following, c.args[2]) = 1
       /\ count(users[c.args[2]].followers, c.args[1]) = 1

\* ------------------------------------------------------------------ C16
\* C16: from every store, for an existing post P and user A, if addComment(P, A)
\* stops once its comment is saved and addComment(P, A) is then run again,
\* alone, every comment the two calls created is in P.comments and P.comments
\* has grown by exactly 1.
C16_CommentCrashRetry ==
  \A p \in DOMAIN posts, a \in DOMAIN users :
    LET stopped == step(Store, Call("addComment", <<p, a>>)).S
        retried == after(stopped, "addComment", <<p, a>>)
    IN  /\ \A c \in DOMAIN retried.comments \ DOMAIN comments :
             includes(retried.posts[p].comments, c)
        /\ Len(retried.posts[p].comments) = Len(posts[p].comments) + 1

\* ------------------------------------------------------------------ C17
\* s is an initial part of t.
IsPrefix(s, t) == Len(s) <= Len(t) /\ SubSeq(t, 1, Len(s)) = s

\* C17: every step leaves each post's comments a prefix of its new value, and
\* in every post's comments a comment saved earlier (comments are numbered in
\* the order they are saved) stands before one saved later.
C17_CommentOrder ==
  [][/\ \A p \in DOMAIN posts : IsPrefix(posts[p].comments, posts'[p].comments)
     /\ \A p \in DOMAIN posts' :
          \A i, j \in 1..Len(posts'[p].comments) :
            i < j => posts'[p].comments[i] < posts'[p].comments[j]]_vars

\* ------------------------------------------------------------------ C18
\* C18: a completed followUser whose follower exists and whose followingId
\* names no user has failed and has not put that id into the follower's
\* following.
C18_FollowUnknown ==
  (/\ returned.op = "followUser"
   /\ returned.args[1] \in DOMAIN users
   /\ returned.args[2] \notin DOMAIN users)
    => (/\ returned.res # "ok"
        /\ ~includes(users[returned.args[1]].following, returned.args[2]))

\* ------------------------------------------------------------------ C19
\* C19: in every store, each user U of the list users() returns has the posts
\* field that user(U) returns.
C19_UsersResolvePosts ==
  LET us == answer(Store, "users", <<>>).val IN
  \A i \in 1..Len(us) :
    field(us[i], "posts") = field(answer(Store, "user", <<us[i].id>>).val, "posts")

\* ------------------------------------------------------------------ C20
\* C20: from every store, for every existing user A, followUser(A,A) run alone
\* leaves A exactly once in A.following and exactly once in A.followers.
C20_SelfFollow ==
  \A a \in DOMAIN users :
    LET r == after(Store, "followUser", <<a, a>>) IN
    /\ count(r.users[a].following, a) = 1
    /\ count(r.users[a].followers, a) = 1

====
